---- MODULE Spec2Model ----
(***************************************************************************)
(* system_info.py: one run of main(), which calls the four probes          *)
(* get_cpu_info, get_memory_info, get_filesystem_info, get_io_performance  *)
(* in that order and then writes the merged record as JSON.                *)
(*                                                                         *)
(* Text (command output, file lines) is a sequence of tokens; " " is the   *)
(* whitespace token, "8" a digit, every other token a non-numeric word.    *)
(* Values stored in the report are kept by their JSON type only (string,   *)
(* number, null, object): the floating point payloads play no part in the  *)
(* control flow.  What the control flow reads (command results, locals)    *)
(* keeps its text.                                                         *)
(***************************************************************************)
EXTENDS Integers, Sequences, FiniteSets, TLC

VARIABLES
  pc,          \* the statement main (or the probe it is in) executes next
  sys,         \* platform.system()
  cpu_info,    \* main's local cpu_info  / get_cpu_info's info
  mem_info,    \* main's local mem_info  / get_memory_info's info
  fs_info,     \* main's local fs_info   / get_filesystem_info's info
  io_info,     \* main's local io_info   / get_io_performance's info
  all_info,    \* the record json.dump wrote to the output file
  files,       \* the working directory: file name -> content
  last_call,   \* the run_command call made by the latest step, if any
  perf_cores,  \* get_cpu_info's local perf_cores
  fs_idx,      \* position of the for loop in paths_to_check
  fs_entry,    \* get_filesystem_info's local fs_info (one path's entry)
  mount_point, \* get_filesystem_info's local mount_point
  fs_obs,      \* what the environment answered during the latest loop pass
  calls,       \* the probes main has called, in order
  returned,    \* the probes that have returned to main, in order
  opens,       \* how often main reached open(output_file, "w")
  crash_at,    \* where an exception left main, "" if none did
  io_raised,   \* the step of get_io_performance that raised, "none" if none
  io_created,  \* open(test_file, "wb") has succeeded
  files0       \* the working directory when main started

vars == <<pc, sys, cpu_info, mem_info, fs_info, io_info, all_info, files,
          last_call, perf_cores, fs_idx, fs_entry, mount_point, fs_obs,
          calls, returned, opens, crash_at, io_raised, io_created, files0>>

(***************************************************************************)
(* Bounds of the model.                                                    *)
(***************************************************************************)
MaxLen == 2       \* longest raw command output, in tokens
MaxElapsed == 2   \* largest time.time() difference, in clock ticks
MaxBlocks == 2    \* largest statvfs f_blocks

(***************************************************************************)
(* Python values.                                                          *)
(***************************************************************************)
NoneV == [kind |-> "none"]
Str(s) == [kind |-> "str", val |-> s]
RaisedV == [kind |-> "raised"]

\* `if x:` for x a str or None
Truthy(x) == x.kind = "str" /\ x.val # <<>>

\* JSON types of the values stored in the report
JStr == [kind |-> "str"]
JNum == [kind |-> "num"]
JNull == [kind |-> "null"]
JMap(d) == [kind |-> "map", items |-> d]

\* dict
EmptyDict == [k \in {} |-> JNull]
Put(d, k, v) == [x \in DOMAIN d \cup {k} |-> IF x = k THEN v ELSE d[x]]
Has(d, k) == k \in DOMAIN d

(***************************************************************************)
(* Text.                                                                   *)
(***************************************************************************)
Chars == {" ", "8", "x"}
Digits == {"8"}
RawOutputs == UNION {[1..n -> Chars] : n \in 0..MaxLen}

RECURSIVE lstrip(_)
lstrip(s) ==
  IF Len(s) = 0 THEN <<>>
  ELSE IF s[1] = " " THEN lstrip(SubSeq(s, 2, Len(s))) ELSE s

RECURSIVE rstrip(_)
rstrip(s) ==
  IF Len(s) = 0 THEN <<>>
  ELSE IF s[Len(s)] = " " THEN rstrip(SubSeq(s, 1, Len(s) - 1)) ELSE s

\* str.strip()
strip(s) == rstrip(lstrip(s))

\* sep in s
Contains(s, sep) == \E i \in 1..Len(s) : s[i] = sep

\* s.split(sep): the pieces between the occurrences of sep
RECURSIVE SplitOn(_, _)
SplitOn(s, sep) ==
  IF ~Contains(s, sep) THEN <<s>>
  ELSE LET i == CHOOSE j \in 1..Len(s) :
                   s[j] = sep /\ \A k \in 1..(j - 1) : s[k] # sep
       IN <<SubSeq(s, 1, i - 1)>> \o SplitOn(SubSeq(s, i + 1, Len(s)), sep)

\* drop the empty pieces
RECURSIVE NonEmpty(_)
NonEmpty(ps) ==
  IF Len(ps) = 0 THEN <<>>
  ELSE IF Head(ps) = <<>> THEN NonEmpty(Tail(ps))
       ELSE <<Head(ps)>> \o NonEmpty(Tail(ps))

\* s.split(): the whitespace separated words
Words(s) == NonEmpty(SplitOn(s, " "))

\* int(s) returns (does not raise ValueError)
IntOk(s) ==
  LET t == strip(s) IN Len(t) > 0 /\ \A i \in 1..Len(t) : t[i] \in Digits

(***************************************************************************)
(* run_command (lines 14-22).  An outcome of subprocess.run: it raised     *)
(* (started = FALSE) or completed with a return code and standard output.  *)
(***************************************************************************)
CmdOutcomes(outs) ==
  {[started |-> FALSE, returncode |-> 0, stdout |-> <<>>]}
    \cup {[started |-> TRUE, returncode |-> rc, stdout |-> o] :
            rc \in {0, 1}, o \in outs}

run_command_any_rc(o) ==
  IF o.started THEN Str(strip(o.stdout)) ELSE NoneV

run_command(o) ==
  IF o.started /\ o.returncode = 0 THEN Str(strip(o.stdout)) ELSE NoneV

NoCall == [cmd |-> "none"]
Call(c, o) == [cmd |-> c, outcome |-> o, result |-> run_command(o)]

(***************************************************************************)
(* main's control flow.                                                    *)
(***************************************************************************)
ProbeOrder == <<"cpu", "memory", "filesystem", "io">>

NextStep_skip_memory(probe) ==
  CASE probe = "cpu" -> "fs_init"
    [] probe = "memory" -> "fs_init"
    [] probe = "filesystem" -> "io_open"
    [] probe = "io" -> "save"

\* the statement of main that follows the return of a probe
NextStep(probe) ==
  CASE probe = "cpu" -> "mem_psutil"
    [] probe = "memory" -> "fs_init"
    [] probe = "filesystem" -> "io_open"
    [] probe = "io" -> "save"

test_file == "io_test_tmp.bin"
output_file == "system_info.json"
other_file == "other.dat"
FileNames == {test_file, output_file, other_file}

NoObs == [name |-> "none", exists |-> FALSE, type_cmd_ok |-> FALSE,
          statvfs |-> "unset"]

Init ==
  /\ pc = "cpu_init"
  /\ sys \in {"Darwin", "Linux", "Windows"}
  /\ cpu_info = EmptyDict
  /\ mem_info = EmptyDict
  /\ fs_info = EmptyDict
  /\ io_info = EmptyDict
  /\ all_info = EmptyDict
  /\ \E pre \in {"absent", "old"} :
       files = [f \in FileNames |->
                  IF f = test_file THEN pre
                  ELSE IF f = other_file THEN "old" ELSE "absent"]
  /\ files0 = files
  /\ last_call = NoCall
  /\ perf_cores = NoneV
  /\ fs_idx = 0
  /\ fs_entry = EmptyDict
  /\ mount_point = <<>>
  /\ fs_obs = NoObs
  /\ calls = <<>>
  /\ returned = <<>>
  /\ opens = 0
  /\ crash_at = ""
  /\ io_raised = "none"
  /\ io_created = FALSE

\* an exception nobody catches leaves main: the process ends, its locals go
Crash(where) ==
  /\ pc' = "crashed"
  /\ crash_at' = where
  /\ cpu_info' = EmptyDict
  /\ mem_info' = EmptyDict
  /\ fs_info' = EmptyDict
  /\ io_info' = EmptyDict
  /\ perf_cores' = NoneV
  /\ fs_idx' = 0
  /\ fs_entry' = EmptyDict
  /\ mount_point' = <<>>
  /\ fs_obs' = NoObs
  /\ UNCHANGED <<sys, files0, returned, io_raised, io_created>>

\* a probe returns its info to main
Return(probe) ==
  /\ pc' = NextStep(probe)
  /\ returned' = Append(returned, probe)

(***************************************************************************)
(* get_cpu_info (lines 25-59).                                             *)
(***************************************************************************)
\* what the other probes and main own: untouched while get_cpu_info runs
CpuFrame ==
  UNCHANGED <<sys, files0, all_info, files, opens, mem_info, fs_info, io_info,
              fs_idx, fs_entry, mount_point, fs_obs, io_raised, io_created>>

\* lines 27-31, and the platform test of lines 34 and 48
CpuInit ==
  /\ pc = "cpu_init"
  /\ calls' = Append(calls, "cpu")
  /\ \E count_known \in BOOLEAN :
       cpu_info' = Put(Put(Put(EmptyDict, "processor", JStr),
                           "architecture", JStr),
                       "python_cpu_count",
                       IF count_known THEN JNum ELSE JNull)
  /\ IF sys = "Darwin" THEN pc' = "cpu_brand" /\ UNCHANGED returned
     ELSE IF sys = "Linux" THEN pc' = "cpu_proc" /\ UNCHANGED returned
     ELSE Return("cpu")
  /\ UNCHANGED <<last_call, perf_cores, crash_at>>
  /\ CpuFrame

\* lines 36-38
CpuBrand ==
  /\ pc = "cpu_brand"
  /\ \E o \in CmdOutcomes(RawOutputs) :
       LET c == Call("sysctl -n machdep.cpu.brand_string", o) IN
       /\ last_call' = c
       /\ \/ /\ c.result.kind = "raised"
             /\ Crash("cpu")
             /\ UNCHANGED <<all_info, files, calls, opens>>
          \/ /\ c.result.kind # "raised"
             /\ cpu_info' = IF Truthy(c.result)
                            THEN Put(cpu_info, "model", JStr) ELSE cpu_info
             /\ pc' = "cpu_perf"
             /\ UNCHANGED <<perf_cores, calls, returned, crash_at>>
             /\ CpuFrame

\* line 41
CpuPerf ==
  /\ pc = "cpu_perf"
  /\ \E o \in CmdOutcomes(RawOutputs) :
       LET c == Call("sysctl -n hw.perflevel0.physicalcpu", o) IN
       /\ last_call' = c
       /\ \/ /\ c.result.kind = "raised"
             /\ Crash("cpu")
             /\ UNCHANGED <<all_info, files, calls, opens>>
          \/ /\ c.result.kind # "raised"
             /\ perf_cores' = c.result
             /\ pc' = "cpu_eff"
             /\ UNCHANGED <<cpu_info, calls, returned, crash_at>>
             /\ CpuFrame

\* lines 42-45: int() of a text that is no number raises ValueError
CpuEff ==
  /\ pc = "cpu_eff"
  /\ \E o \in CmdOutcomes(RawOutputs) :
       LET c == Call("sysctl -n hw.perflevel1.physicalcpu", o)
           eff_cores == c.result
       IN
       /\ last_call' = c
       /\ \/ /\ \/ eff_cores.kind = "raised"
                \/ /\ Truthy(perf_cores) /\ Truthy(eff_cores)
                   /\ ~(IntOk(perf_cores.val) /\ IntOk(eff_cores.val))
             /\ Crash("cpu")
             /\ UNCHANGED <<all_info, files, calls, opens>>
          \/ /\ eff_cores.kind # "raised"
             /\ Truthy(perf_cores) /\ Truthy(eff_cores)
             /\ IntOk(perf_cores.val) /\ IntOk(eff_cores.val)
             /\ cpu_info' = Put(Put(cpu_info, "performance_cores", JNum),
                                "efficiency_cores", JNum)
             /\ Return("cpu")
             /\ UNCHANGED <<perf_cores, calls, crash_at>>
             /\ CpuFrame
          \/ /\ eff_cores.kind # "raised"
             /\ ~(Truthy(perf_cores) /\ Truthy(eff_cores))
             /\ Return("cpu")
             /\ UNCHANGED <<cpu_info, perf_cores, calls, crash_at>>
             /\ CpuFrame

\* /proc/cpuinfo as the probe may find it: unreadable, or some lines
CpuinfoFiles ==
  {[readable |-> FALSE, lines |-> <<>>],
   [readable |-> TRUE, lines |-> <<>>],
   [readable |-> TRUE, lines |-> << <<"flags", ":", " ", "x">> >>],
   [readable |-> TRUE,
    lines |-> << <<"processor", ":", "8">>,
                 <<"model name", " ", ":", " ", "x">> >>],
   [readable |-> TRUE, lines |-> << <<"model name", ":">> >>],
   [readable |-> TRUE, lines |-> << <<"model name">>, <<"model name", ":", "x">> >>]}

\* lines 50-57: the first line that starts with "model name" ends the loop;
\* line.split(":")[1] raises IndexError on a line without ":", and the
\* except clause swallows it
RECURSIVE ParseCpuinfo(_, _)
ParseCpuinfo(info, lines) ==
  IF Len(lines) = 0 THEN info
  ELSE LET line == Head(lines) IN
       IF Len(line) > 0 /\ line[1] = "model name"
       THEN IF Len(SplitOn(line, ":")) >= 2
            THEN Put(info, "model", JStr)
            ELSE info
       ELSE ParseCpuinfo(info, Tail(lines))

CpuProc ==
  /\ pc = "cpu_proc"
  /\ \E f \in CpuinfoFiles :
       cpu_info' = IF f.readable THEN ParseCpuinfo(cpu_info, f.lines)
                   ELSE cpu_info
  /\ Return("cpu")
  /\ last_call' = NoCall
  /\ UNCHANGED <<perf_cores, calls, crash_at>>
  /\ CpuFrame

(***************************************************************************)
(* get_memory_info (lines 62-86).                                          *)
(***************************************************************************)
MemFrame ==
  UNCHANGED <<sys, files0, all_info, files, opens, cpu_info, fs_info, io_info,
              fs_idx, fs_entry, mount_point, fs_obs, io_raised, io_created>>

\* lines 64-75: only ImportError is caught.  get_cpu_info's local perf_cores,
\* readable in the state its last statement left, is gone from here on.
MemPsutil ==
  /\ pc = "mem_psutil"
  /\ calls' = Append(calls, "memory")
  /\ last_call' = NoCall
  /\ \E psutil \in {"ok", "ImportError", "raises"} :
       \/ /\ psutil = "ok"
          /\ mem_info' = Put(Put(Put(EmptyDict, "total_gb", JNum),
                                 "available_gb", JNum),
                             "used_percent", JNum)
          /\ Return("memory")
          /\ perf_cores' = NoneV
          /\ UNCHANGED crash_at
          /\ MemFrame
       \/ /\ psutil = "ImportError"
          /\ mem_info' = EmptyDict
          /\ IF sys = "Darwin" THEN pc' = "mem_sysctl" /\ UNCHANGED returned
             ELSE IF sys = "Linux" THEN pc' = "mem_grep" /\ UNCHANGED returned
             ELSE Return("memory")
          /\ perf_cores' = NoneV
          /\ UNCHANGED crash_at
          /\ MemFrame
       \/ /\ psutil = "raises"
          /\ Crash("memory")
          /\ UNCHANGED <<all_info, files, opens>>

\* lines 77-79
MemSysctl ==
  /\ pc = "mem_sysctl"
  /\ \E o \in CmdOutcomes(RawOutputs) :
       LET c == Call("sysctl -n hw.memsize", o)
           mem_size == c.result
       IN
       /\ last_call' = c
       /\ \/ /\ \/ mem_size.kind = "raised"
                \/ Truthy(mem_size) /\ ~IntOk(mem_size.val)
             /\ Crash("memory")
             /\ UNCHANGED <<all_info, files, calls, opens>>
          \/ /\ mem_size.kind # "raised"
             /\ Truthy(mem_size) => IntOk(mem_size.val)
             /\ mem_info' = IF Truthy(mem_size)
                            THEN Put(mem_info, "total_gb", JNum) ELSE mem_info
             /\ Return("memory")
             /\ UNCHANGED <<perf_cores, calls, crash_at>>
             /\ MemFrame

\* what `grep MemTotal /proc/meminfo` prints: nothing, or a matching line
GrepOutputs == {<<>>} \cup {<<"MemTotal:">> \o s : s \in RawOutputs}

\* lines 81-84: mem_info.split()[1] raises IndexError on a one-word line,
\* int() raises ValueError on a word that is no number
MemGrep ==
  /\ pc = "mem_grep"
  /\ \E o \in CmdOutcomes(GrepOutputs) :
       LET c == Call("grep MemTotal /proc/meminfo", o)
           mem_line == c.result
           kb_ok == /\ Len(Words(mem_line.val)) >= 2
                    /\ IntOk(Words(mem_line.val)[2])
       IN
       /\ last_call' = c
       /\ \/ /\ \/ mem_line.kind = "raised"
                \/ Truthy(mem_line) /\ ~kb_ok
             /\ Crash("memory")
             /\ UNCHANGED <<all_info, files, calls, opens>>
          \/ /\ mem_line.kind # "raised"
             /\ Truthy(mem_line) => kb_ok
             /\ mem_info' = IF Truthy(mem_line)
                            THEN Put(mem_info, "total_gb", JNum) ELSE mem_info
             /\ Return("memory")
             /\ UNCHANGED <<perf_cores, calls, crash_at>>
             /\ MemFrame

(***************************************************************************)
(* get_filesystem_info (lines 89-173).                                     *)
(***************************************************************************)
FsFrame ==
  UNCHANGED <<sys, files0, all_info, files, opens, cpu_info, mem_info, io_info,
              perf_cores, io_raised, io_created>>

\* the names of paths_to_check (lines 92-96)
PathNames == <<"current_dir", "home", "tmp">>

\* lines 91-96: os.getcwd() and Path.home() are called outside any try
FsInit ==
  /\ pc = "fs_init"
  /\ calls' = Append(calls, "filesystem")
  /\ last_call' = NoCall
  /\ \E getcwd_ok \in BOOLEAN, home_ok \in BOOLEAN :
       \/ /\ ~(getcwd_ok /\ home_ok)
          /\ Crash("filesystem")
          /\ UNCHANGED <<all_info, files, opens>>
       \/ /\ getcwd_ok /\ home_ok
          /\ fs_info' = EmptyDict
          /\ fs_idx' = 1
          /\ pc' = "fs_loop"
          /\ UNCHANGED <<fs_entry, mount_point, fs_obs, returned, crash_at>>
          /\ FsFrame

\* the statement that follows the filesystem type lookup depends on the OS
FsTypeStep == IF sys = "Darwin" THEN "fs_df"
              ELSE IF sys = "Linux" THEN "fs_stat" ELSE "fs_statvfs"

\* lines 98-102 (and line 173 once the loop is over)
FsLoop ==
  /\ pc = "fs_loop"
  /\ last_call' = NoCall
  /\ \/ /\ fs_idx > Len(PathNames)
        /\ Return("filesystem")
        /\ fs_idx' = 0
        /\ fs_entry' = EmptyDict
        /\ mount_point' = <<>>
        /\ fs_obs' = NoObs
        /\ UNCHANGED fs_info
     \/ /\ fs_idx <= Len(PathNames)
        /\ \E exists \in BOOLEAN :
             IF exists
             THEN /\ fs_entry' = Put(EmptyDict, "path", JStr)
                  /\ fs_obs' = [NoObs EXCEPT !.name = PathNames[fs_idx],
                                             !.exists = TRUE]
                  /\ pc' = FsTypeStep
                  /\ UNCHANGED fs_idx
             ELSE /\ fs_obs' = [NoObs EXCEPT !.name = PathNames[fs_idx]]
                  /\ fs_idx' = fs_idx + 1
                  /\ pc' = "fs_loop"
                  /\ UNCHANGED fs_entry
        /\ mount_point' = <<>>
        /\ UNCHANGED <<fs_info, returned>>
  /\ UNCHANGED <<calls, crash_at>>
  /\ FsFrame

\* what `df '<path>' | tail -1` prints
DfOutputs ==
  {<<>>, <<" ">>, <<"/dev/disk1", " ", "8", " ", "/">>,
   <<"map", " ", "/home", " ">>}

\* lines 107-111: the mount point is the last word of df's line
FsDf ==
  /\ pc = "fs_df"
  /\ \E o \in CmdOutcomes(DfOutputs) :
       LET c == Call("df", o)
           mount_result == c.result
       IN
       /\ last_call' = c
       /\ \/ /\ mount_result.kind = "raised"
             /\ Crash("filesystem")
             /\ UNCHANGED <<all_info, files, calls, opens>>
          \/ /\ mount_result.kind # "raised"
             /\ IF Truthy(mount_result)
                THEN /\ mount_point' =
                          Words(mount_result.val)[Len(Words(mount_result.val))]
                     /\ pc' = "fs_mount1"
                ELSE /\ pc' = "fs_statvfs"
                     /\ UNCHANGED mount_point
             /\ UNCHANGED <<fs_info, fs_idx, fs_entry, fs_obs, calls, returned,
                            crash_at>>
             /\ FsFrame

\* what `mount | grep ...` prints
MountOutputs ==
  {<<>>,
   <<"/dev/disk3s1", " ", "on", " ", "/">>,
   <<"/dev/disk3s1", " ", "on", " ", "/", " ",
     "(", "apfs", ",", " ", "local", ",", " ", "journaled", ")">>,
   <<"/dev/disk2", " ", "on", " ", "/", " ", "(", "hfs", ")">>,
   <<"srv:/x", " ", "on", " ", "/home", " ", "(", "NFS", ")">>,
   <<"x", " ", "(", ")">>}

\* str.lower() of a token
Lower(w) == IF w = "NFS" THEN "nfs" ELSE w

\* lines 119-143.  Every branch of the chain of lines 125-134 assigns
\* fs_info["type"] a string; mount_type is set for "local" in fs_parts and
\* for a details text that contains "nfs" or "smbfs" (a token here)
ParseMount(entry, mount_info) ==
  IF ~Contains(mount_info, "(") THEN entry
  ELSE LET fs_details == SplitOn(SplitOn(mount_info, "(")[2], ")")[1]
           parts == SplitOn(fs_details, ",")
           fs_parts == [i \in 1..Len(parts) |-> strip(parts[i])]
           InParts(w) == \E i \in 1..Len(fs_parts) : fs_parts[i] = <<w>>
           InDetails(w) ==
             \E i \in 1..Len(fs_details) : Lower(fs_details[i]) = w
           typed == Put(entry, "type", JStr)
       IN IF InParts("local") THEN Put(typed, "mount_type", JStr)
          ELSE IF InDetails("nfs") \/ InDetails("smbfs")
          THEN Put(typed, "mount_type", JStr)
          ELSE typed

\* lines 113-118 for the first grep: an empty answer leads to the second
FsMount1 ==
  /\ pc = "fs_mount1"
  /\ \E o \in CmdOutcomes(MountOutputs) :
       LET c == Call("mount | grep '^mp '", o)
           mount_info == c.result
       IN
       /\ last_call' = c
       /\ \/ /\ mount_info.kind = "raised"
             /\ Crash("filesystem")
             /\ UNCHANGED <<all_info, files, calls, opens>>
          \/ /\ mount_info.kind # "raised"
             /\ IF Truthy(mount_info)
                THEN /\ fs_entry' = ParseMount(fs_entry, mount_info.val)
                     /\ fs_obs' = [fs_obs EXCEPT !.type_cmd_ok = TRUE]
                     /\ pc' = "fs_statvfs"
                ELSE /\ pc' = "fs_mount2"
                     /\ UNCHANGED <<fs_entry, fs_obs>>
             /\ UNCHANGED <<fs_info, fs_idx, mount_point, calls, returned,
                            crash_at>>
             /\ FsFrame

\* lines 116-143 for the second grep
FsMount2 ==
  /\ pc = "fs_mount2"
  /\ \E o \in CmdOutcomes(MountOutputs) :
       LET c == Call("mount | grep ' mp '", o)
           mount_info == c.result
       IN
       /\ last_call' = c
       /\ \/ /\ mount_info.kind = "raised"
             /\ Crash("filesystem")
             /\ UNCHANGED <<all_info, files, calls, opens>>
          \/ /\ mount_info.kind # "raised"
             /\ IF Truthy(mount_info)
                THEN /\ fs_entry' = ParseMount(fs_entry, mount_info.val)
                     /\ fs_obs' = [fs_obs EXCEPT !.type_cmd_ok = TRUE]
                ELSE UNCHANGED <<fs_entry, fs_obs>>
             /\ pc' = "fs_statvfs"
             /\ UNCHANGED <<fs_info, fs_idx, mount_point, calls, returned,
                            crash_at>>
             /\ FsFrame

\* lines 147-158: fs_map.get(result, result) is a string either way
FsStat ==
  /\ pc = "fs_stat"
  /\ \E o \in CmdOutcomes(RawOutputs) :
       LET c == Call("stat -f -c %T", o)
           result == c.result
       IN
       /\ last_call' = c
       /\ \/ /\ result.kind = "raised"
             /\ Crash("filesystem")
             /\ UNCHANGED <<all_info, files, calls, opens>>
          \/ /\ result.kind # "raised"
             /\ IF Truthy(result)
                THEN /\ fs_entry' = Put(fs_entry, "type", JStr)
                     /\ fs_obs' = [fs_obs EXCEPT !.type_cmd_ok = TRUE]
                ELSE UNCHANGED <<fs_entry, fs_obs>>
             /\ pc' = "fs_statvfs"
             /\ UNCHANGED <<fs_info, fs_idx, mount_point, calls, returned,
                            crash_at>>
             /\ FsFrame

\* os.statvfs(path): it raises, or answers with block counts
StatvfsOutcomes ==
  {[ok |-> FALSE, f_blocks |-> 0, f_bavail |-> 0, f_frsize |-> 0]}
    \cup {[ok |-> TRUE, f_blocks |-> b, f_bavail |-> a, f_frsize |-> fr] :
            b \in 0..MaxBlocks, a \in 0..MaxBlocks, fr \in {0, 1}}

\* the attributes of os.statvfs_result
StatvfsFields ==
  {"f_bsize", "f_frsize", "f_blocks", "f_bfree", "f_bavail", "f_files",
   "f_ffree", "f_favail", "f_flag", "f_namemax", "f_fsid"}

StatvfsEntry_defaults(entry, sv) ==
  IF sv.ok /\ sv.f_blocks * sv.f_frsize # 0
  THEN Put(Put(Put(entry, "total_gb", JNum), "free_gb", JNum),
           "used_percent", JNum)
  ELSE Put(entry, "used_percent", JNum)

\* lines 161-169.  Line 162 may raise.  Line 164 reads statvfs.f_available,
\* which os.statvfs_result does not have: AttributeError, raised before
\* line 165 stores anything, and swallowed by line 168.  Were the attribute
\* there, total_gb and free_gb would be stored before the division by
\* total_gb, which raises ZeroDivisionError when the total is 0.
StatvfsEntry(entry, sv) ==
  IF ~sv.ok THEN entry
  ELSE IF "f_available" \notin StatvfsFields THEN entry
  ELSE LET total == sv.f_blocks * sv.f_frsize
           sized == Put(Put(entry, "total_gb", JNum), "free_gb", JNum)
       IN IF total = 0 THEN sized ELSE Put(sized, "used_percent", JNum)

FsStore_path_only(info, name, entry) == Put(info, name, JStr)

\* line 171
FsStore(info, name, entry) == Put(info, name, JMap(entry))

\* lines 161-171
FsStatvfs ==
  /\ pc = "fs_statvfs"
  /\ last_call' = NoCall
  /\ \E sv \in StatvfsOutcomes :
       /\ fs_entry' = StatvfsEntry(fs_entry, sv)
       /\ fs_info' = FsStore(fs_info, PathNames[fs_idx], fs_entry')
       /\ fs_obs' = [fs_obs EXCEPT !.statvfs =
                       IF ~sv.ok THEN "raised"
                       ELSE IF sv.f_blocks * sv.f_frsize = 0 THEN "zero_total"
                       ELSE "ok"]
  /\ fs_idx' = fs_idx + 1
  /\ pc' = "fs_loop"
  /\ UNCHANGED <<mount_point, calls, returned, crash_at>>
  /\ FsFrame

(***************************************************************************)
(* get_io_performance (lines 176-209).                                     *)
(***************************************************************************)
IoFrame ==
  UNCHANGED <<sys, files0, all_info, opens, cpu_info, mem_info, fs_info,
              perf_cores, fs_idx, fs_entry, mount_point, fs_obs, crash_at>>

HandleIoError_reset(info) == Put(EmptyDict, "error", JStr)

\* lines 206-207: the keys stored so far stay
HandleIoError(info) == Put(info, "error", JStr)

\* an exception raised inside the try block: lines 206-209
IoExcept(info, step) ==
  /\ io_info' = HandleIoError(info)
  /\ io_raised' = step
  /\ Return("io")

os_remove_keep(fs, name) == fs

\* os.remove(name) when it does not raise
os_remove(fs, name) == [fs EXCEPT ![name] = "absent"]

\* lines 178-189: open(test_file, "wb") creates or truncates the file
IoOpen ==
  /\ pc = "io_open"
  /\ calls' = Append(calls, "io")
  /\ last_call' = NoCall
  /\ \E raises \in BOOLEAN :
       IF raises
       THEN /\ IoExcept(EmptyDict, "open")
            /\ UNCHANGED <<files, io_created>>
       ELSE /\ files' = [files EXCEPT ![test_file] = "empty"]
            /\ io_created' = TRUE
            /\ io_info' = EmptyDict
            /\ pc' = "io_write"
            /\ UNCHANGED <<io_raised, returned>>
  /\ IoFrame

\* lines 190-192: os.urandom, write, flush, fsync; the with block closes
\* the file on the way out of an exception and leaves it in place
IoWrite ==
  /\ pc = "io_write"
  /\ \E raises \in BOOLEAN :
       IF raises
       THEN /\ \E left \in {"empty", "partial"} :
                 files' = [files EXCEPT ![test_file] = left]
            /\ IoExcept(io_info, "write")
       ELSE /\ files' = [files EXCEPT ![test_file] = "random"]
            /\ pc' = "io_write_speed"
            /\ UNCHANGED <<io_info, io_raised, returned>>
  /\ UNCHANGED <<io_created, calls, last_call>>
  /\ IoFrame

\* lines 193-194: the division raises ZeroDivisionError for write_time = 0
IoWriteSpeed ==
  /\ pc = "io_write_speed"
  /\ \E write_time \in 0..MaxElapsed :
       IF write_time = 0
       THEN IoExcept(io_info, "write_speed")
       ELSE /\ io_info' = Put(io_info, "write_speed_mb_s", JNum)
            /\ pc' = "io_read"
            /\ UNCHANGED <<io_raised, returned>>
  /\ UNCHANGED <<files, io_created, calls, last_call>>
  /\ IoFrame

\* lines 197-199
IoRead ==
  /\ pc = "io_read"
  /\ \E raises \in BOOLEAN :
       IF raises
       THEN IoExcept(io_info, "read")
       ELSE /\ pc' = "io_read_speed"
            /\ UNCHANGED <<io_info, io_raised, returned>>
  /\ UNCHANGED <<files, io_created, calls, last_call>>
  /\ IoFrame

\* lines 200-201
IoReadSpeed ==
  /\ pc = "io_read_speed"
  /\ \E read_time \in 0..MaxElapsed :
       IF read_time = 0
       THEN IoExcept(io_info, "read_speed")
       ELSE /\ io_info' = Put(io_info, "read_speed_mb_s", JNum)
            /\ pc' = "io_remove"
            /\ UNCHANGED <<io_raised, returned>>
  /\ UNCHANGED <<files, io_created, calls, last_call>>
  /\ IoFrame

\* lines 204 and 209: the only place the file is removed
IoRemove ==
  /\ pc = "io_remove"
  /\ \E raises \in BOOLEAN :
       IF raises
       THEN /\ IoExcept(io_info, "remove")
            /\ UNCHANGED files
       ELSE /\ files' = os_remove(files, test_file)
            /\ Return("io")
            /\ UNCHANGED <<io_info, io_raised>>
  /\ UNCHANGED <<io_created, calls, last_call>>
  /\ IoFrame

(***************************************************************************)
(* main (lines 212-271).                                                   *)
(***************************************************************************)
PlatformInfo ==
  Put(Put(Put(EmptyDict, "system", JStr), "release", JStr), "python", JStr)

\* the sections of all_info, in the order of lines 261-264
Sections == <<"cpu", "memory", "filesystem", "io_performance">>

BuildReport_skip_empty(cpu, mem, fs, io) ==
  LET base == Put(Put(EmptyDict, "timestamp", JStr),
                  "platform", JMap(PlatformInfo))
      AddIf(r, k, d) == IF DOMAIN d = {} THEN r ELSE Put(r, k, JMap(d))
  IN AddIf(AddIf(AddIf(AddIf(base, "cpu", cpu), "memory", mem),
                 "filesystem", fs), "io_performance", io)

\* lines 254-265
BuildReport(cpu, mem, fs, io) ==
  Put(Put(Put(Put(Put(Put(EmptyDict, "timestamp", JStr),
                          "platform", JMap(PlatformInfo)),
                      "cpu", JMap(cpu)),
                  "memory", JMap(mem)),
              "filesystem", JMap(fs)),
      "io_performance", JMap(io))

\* lines 253-268: open(output_file, "w") may raise, json.dump may raise
\* while writing; either ends main.  After main the process is over.
MainSave ==
  /\ pc = "save"
  /\ opens' = opens + 1
  /\ last_call' = NoCall
  /\ \E result \in {"open raises", "dump raises", "written"} :
       \/ /\ result = "open raises"
          /\ Crash("save")
          /\ UNCHANGED <<all_info, files>>
       \/ /\ result = "dump raises"
          /\ Crash("save")
          /\ files' = [files EXCEPT ![output_file] = "partial"]
          /\ UNCHANGED all_info
       \/ /\ result = "written"
          /\ all_info' = BuildReport(cpu_info, mem_info, fs_info, io_info)
          /\ files' = [files EXCEPT ![output_file] = "complete"]
          /\ pc' = "done"
          /\ cpu_info' = EmptyDict
          /\ mem_info' = EmptyDict
          /\ fs_info' = EmptyDict
          /\ io_info' = EmptyDict
          /\ UNCHANGED <<sys, files0, perf_cores, fs_idx, fs_entry,
                         mount_point, fs_obs, returned, crash_at, io_raised,
                         io_created>>
  /\ UNCHANGED calls

Next ==
  \/ CpuInit \/ CpuBrand \/ CpuPerf \/ CpuEff \/ CpuProc
  \/ MemPsutil \/ MemSysctl \/ MemGrep
  \/ FsInit \/ FsLoop \/ FsDf \/ FsMount1 \/ FsMount2 \/ FsStat \/ FsStatvfs
  \/ IoOpen \/ IoWrite \/ IoWriteSpeed \/ IoRead \/ IoReadSpeed \/ IoRemove
  \/ MainSave

Spec == Init /\ [][Next]_vars

(***************************************************************************)
(* Properties.                                                             *)
(***************************************************************************)
Written == files[output_file] = "complete"
Section(name) == all_info[name].items
IoReturned == pc = "save"
IsPrefix(s, t) == Len(s) <= Len(t) /\ \A i \in 1..Len(s) : s[i] = t[i]

\* C1: whenever a step of get_io_performance that follows the creation of
\* io_test_tmp.bin raised (the write, the write speed computation, the read,
\* the read speed computation), the file is gone once the probe has returned.
C1_CleanupOnError ==
  ( /\ "io" \in {returned[i] : i \in 1..Len(returned)}
    /\ io_created
    /\ io_raised \in {"write", "write_speed", "read", "read_speed"} )
  => files[test_file] = "absent"

\* C2: no failure inside a probe ends main: whenever main has been left by
\* an exception, the exception came from writing the output file.
C2_NoProbeFatal == pc = "crashed" => crash_at = "save"

\* C3: the record written to the output file has the keys timestamp and
\* platform (with system, release, python) and the four section keys, each
\* section an object, however each probe went.
C3_ReportKeys ==
  Written =>
    /\ {"timestamp", "platform", "cpu", "memory", "filesystem",
        "io_performance"} \subseteq DOMAIN all_info
    /\ all_info["platform"].kind = "map"
    /\ {"system", "release", "python"} \subseteq DOMAIN Section("platform")
    /\ \A i \in 1..Len(Sections) : all_info[Sections[i]].kind = "map"

C3_Witness ==
  /\ Written
  /\ DOMAIN Section("memory") = {}
  /\ DOMAIN Section("filesystem") = {}

\* C4: no section of a written report holds a key that was added because a
\* step failed.
C4_NoFailureKeys == Written => ~Has(Section("io_performance"), "error")

\* C5 as stated: no value stored directly under a section of a written
\* report is itself a mapping.
C5_FlatSections ==
  Written =>
    \A i \in 1..Len(Sections) :
      \A k \in DOMAIN Section(Sections[i]) :
        Section(Sections[i])[k].kind # "map"

\* C5 as amended: cpu, memory and io_performance map their keys to scalars
\* (numbers and strings, and null for python_cpu_count alone); every value
\* stored directly under filesystem is a mapping, one per path, from keys to
\* strings and numbers.
C5_SectionShapes ==
  Written =>
    /\ \A name \in {"cpu", "memory", "io_performance"} :
         \A k \in DOMAIN Section(name) :
           \/ Section(name)[k].kind \in {"str", "num"}
           \/ /\ Section(name)[k].kind = "null"
              /\ name = "cpu" /\ k = "python_cpu_count"
    /\ \A p \in DOMAIN Section("filesystem") :
         /\ p \in {PathNames[i] : i \in 1..Len(PathNames)}
         /\ Section("filesystem")[p].kind = "map"
         /\ \A k \in DOMAIN Section("filesystem")[p].items :
              Section("filesystem")[p].items[k].kind \in {"str", "num"}

C5_Witness ==
  /\ Written
  /\ Has(Section("filesystem"), "tmp")
  /\ Has(Section("filesystem")["tmp"].items, "type")
  /\ Section("cpu")["python_cpu_count"].kind = "null"

IsStripOf(v, raw) ==
  /\ Len(v) > 0 => (v[1] # " " /\ v[Len(v)] # " ")
  /\ \E a \in 0..Len(raw) :
       /\ a + Len(v) <= Len(raw)
       /\ \A k \in 1..a : raw[k] = " "
       /\ \A k \in 1..Len(v) : raw[a + k] = v[k]
       /\ \A k \in (a + Len(v) + 1)..Len(raw) : raw[k] = " "

\* the caller of the latest run_command call has added no key for it
NoKeyAdded ==
  CASE last_call.cmd = "sysctl -n machdep.cpu.brand_string" ->
         ~Has(cpu_info, "model")
    [] last_call.cmd = "sysctl -n hw.perflevel0.physicalcpu" ->
         /\ ~Has(cpu_info, "performance_cores")
         /\ ~Has(cpu_info, "efficiency_cores")
    [] last_call.cmd = "sysctl -n hw.perflevel1.physicalcpu" ->
         /\ ~Has(cpu_info, "performance_cores")
         /\ ~Has(cpu_info, "efficiency_cores")
    [] last_call.cmd \in {"sysctl -n hw.memsize",
                          "grep MemTotal /proc/meminfo"} ->
         ~Has(mem_info, "total_gb")
    [] OTHER ->
         /\ ~Has(fs_entry, "type")
         /\ ~Has(fs_entry, "mount_type")

\* C8: run_command does not raise; it returns the stripped standard output
\* exactly when the command ran and exited 0, and None otherwise; the caller
\* adds no key for a result that is None or empty.
C8_RunCommand ==
  last_call.cmd # "none" =>
    LET o == last_call.outcome
        r == last_call.result
    IN /\ r.kind \in {"str", "none"}
       /\ (o.started /\ o.returncode = 0) =>
            (r.kind = "str" /\ IsStripOf(r.val, o.stdout))
       /\ ~(o.started /\ o.returncode = 0) => r.kind = "none"
       /\ ~Truthy(r) => NoKeyAdded
       /\ ( /\ last_call.cmd = "sysctl -n hw.perflevel1.physicalcpu"
            /\ ~Truthy(perf_cores) ) => NoKeyAdded

C8_Witness ==
  /\ last_call.cmd = "sysctl -n machdep.cpu.brand_string"
  /\ last_call.outcome.started
  /\ last_call.outcome.returncode = 0
  /\ last_call.outcome.stdout = <<" ", " ">>
  /\ last_call.result = Str(<<>>)
  /\ pc = "cpu_perf"
  /\ ~Has(cpu_info, "model")

\* C9: get_io_performance does not raise; its result has the error key
\* exactly when a step raised; read_speed_mb_s comes with write_speed_mb_s;
\* the speeds stored before the failing step stay next to error.
C9_IoResultShapes ==
  /\ crash_at # "io"
  /\ IoReturned =>
       /\ DOMAIN io_info \subseteq
            {"write_speed_mb_s", "read_speed_mb_s", "error"}
       /\ Has(io_info, "error") <=> io_raised # "none"
       /\ Has(io_info, "read_speed_mb_s") => Has(io_info, "write_speed_mb_s")
       /\ Has(io_info, "write_speed_mb_s") <=>
            io_raised \in {"none", "read", "read_speed", "remove"}
       /\ Has(io_info, "read_speed_mb_s") <=> io_raised \in {"none", "remove"}

C9_Witness ==
  /\ IoReturned
  /\ io_raised = "remove"
  /\ DOMAIN io_info = {"write_speed_mb_s", "read_speed_mb_s", "error"}

\* C10: an entry of get_filesystem_info's result is there exactly when its
\* path existed; every entry has path; type is there only when the
\* filesystem type command answered with a non-empty output; a statvfs
\* failure (a zero total among them) leaves the entry in place without
\* used_percent; used_percent comes with total_gb and free_gb.
C10_FilesystemEntries ==
  /\ \A p \in DOMAIN fs_info :
       /\ p \in {PathNames[i] : i \in 1..Len(PathNames)}
       /\ fs_info[p].kind = "map"
       /\ Has(fs_info[p].items, "path")
       /\ Has(fs_info[p].items, "used_percent") =>
            ( /\ Has(fs_info[p].items, "total_gb")
              /\ Has(fs_info[p].items, "free_gb") )
  /\ (pc = "fs_loop" /\ fs_obs.name # "none") =>
       /\ Has(fs_info, fs_obs.name) <=> fs_obs.exists
       /\ fs_obs.exists =>
            /\ Has(fs_info[fs_obs.name].items, "type") => fs_obs.type_cmd_ok
            /\ fs_obs.statvfs \in {"raised", "zero_total"} =>
                 ~Has(fs_info[fs_obs.name].items, "used_percent")
  /\ pc = "fs_loop" =>
       DOMAIN fs_info \subseteq {PathNames[i] : i \in 1..(fs_idx - 1)}

C10_Witness ==
  /\ pc = "fs_loop"
  /\ fs_obs.name = "home"
  /\ fs_obs.statvfs = "zero_total"
  /\ Has(fs_info, "home")
  /\ Has(fs_info["home"].items, "type")
  /\ ~Has(fs_info["home"].items, "used_percent")
  /\ ~Has(fs_info, "current_dir")

====
